---- MODULE Spec2Model ----
(***************************************************************************)
(* Model of the two build drivers of the ESP32-C3 IoT workspace:           *)
(*   build_test_all.py        (BuildTester, the full runner)               *)
(*   test_working_modules.py  (the quick probe)                            *)
(* Text is a sequence of one-character strings, so that strip, lower,      *)
(* split and substring search are computed rather than assumed.            *)
(***************************************************************************)
EXTENDS Integers, Sequences, FiniteSets, TLC

(***************************************************************************)
(* Bounds of the model.                                                    *)
(***************************************************************************)
\* number of environment reads (tool outcomes, directory lookups) of one run
\* of the full runner that may differ from the run's default outcome; the
\* faults of a run all occur while one and the same module is processed
MaxFaults == 1

(***************************************************************************)
(* Text primitives (Python str).                                           *)
(***************************************************************************)
None == "None"

UpperCase == <<"A","B","C","D","E","F","G","H","I","J","K","L","M","N","O","P","Q","R","S","T","U","V","W","X","Y","Z">>

LowerCase == <<"a","b","c","d","e","f","g","h","i","j","k","l","m","n","o","p","q","r","s","t","u","v","w","x","y","z">>

WhiteSpace == {" ", "\t", "\n", "\r", "\f"}

\* the lower-case form of each upper-case letter
ToLower ==
    [c \in {UpperCase[k] : k \in 1..Len(UpperCase)} |->
        LowerCase[CHOOSE k \in 1..Len(UpperCase) : UpperCase[k] = c]]

\* str.lower()
lower(s) ==
    [i \in 1..Len(s) |-> IF s[i] \in DOMAIN ToLower THEN ToLower[s[i]] ELSE s[i]]

\* index of the first character of s at or after i that is not white space
RECURSIVE FirstInk(_, _)
FirstInk(s, i) ==
    IF i > Len(s) \/ s[i] \notin WhiteSpace THEN i ELSE FirstInk(s, i + 1)

\* index of the last character of s at or before i that is not white space
RECURSIVE LastInk(_, _)
LastInk(s, i) ==
    IF i < 1 \/ s[i] \notin WhiteSpace THEN i ELSE LastInk(s, i - 1)

\* str.strip()
strip(s) == SubSeq(s, FirstInk(s, 1), LastInk(s, Len(s)))

\* the Python operator  sub in s
contains(sub, s) ==
    LET text == s
    IN  \E i \in 0..(Len(text) - Len(sub)) :
            \A j \in 1..Len(sub) : text[i + j] = sub[j]

\* str.split(sep) for a one-character separator
\* the pieces of s from index from on; i scans for the next separator
RECURSIVE SplitFrom(_, _, _, _)
SplitFrom(s, sep, from, i) ==
    IF i > Len(s) THEN <<SubSeq(s, from, Len(s))>>
    ELSE IF s[i] = sep
         THEN <<SubSeq(s, from, i - 1)>> \o SplitFrom(s, sep, i + 1, i + 1)
         ELSE SplitFrom(s, sep, from, i + 1)

split(s, sep) == SplitFrom(s, sep, 1, 1)

(***************************************************************************)
(* BuildTester.detect_warnings                                             *)
(***************************************************************************)
warning_patterns ==
    << <<"w","a","r","n","i","n","g",":">>,
       <<"u","n","u","s","e","d">>,
       <<"d","e","a","d","_","c","o","d","e">>,
       <<"d","e","p","r","e","c","a","t","e","d">>,
       <<"u","n","r","e","a","c","h","a","b","l","e","_","c","o","d","e">>,
       <<"n","o","n","_","s","n","a","k","e","_","c","a","s","e">> >>

\* inner loop over the patterns from pattern k on, leaving at the first hit
RECURSIVE line_warnings(_, _)
line_warnings(line, k) ==
    IF k > Len(warning_patterns) THEN <<>>
    ELSE IF contains(warning_patterns[k], lower(line)) THEN <<strip(line)>>
    ELSE line_warnings(line, k + 1)

\* the inner loop without its break: one entry per pattern that hits
RECURSIVE line_warnings_nobreak(_, _)
line_warnings_nobreak(line, k) ==
    IF k > Len(warning_patterns) THEN <<>>
    ELSE (IF contains(warning_patterns[k], lower(line)) THEN <<strip(line)>> ELSE <<>>)
         \o line_warnings_nobreak(line, k + 1)

\* outer loop over the lines from line i on
RECURSIVE scan_lines(_, _)
scan_lines(lines, i) ==
    IF i > Len(lines) THEN <<>>
    ELSE line_warnings(lines[i], 1) \o scan_lines(lines, i + 1)

RECURSIVE scan_lines_nobreak(_, _)
scan_lines_nobreak(lines, i) ==
    IF i > Len(lines) THEN <<>>
    ELSE line_warnings_nobreak(lines[i], 1) \o scan_lines_nobreak(lines, i + 1)

detect_warnings_nobreak(stdout, stderr) ==
    scan_lines_nobreak(split(stdout \o <<"\n">> \o stderr, "\n"), 1)

detect_warnings(stdout, stderr) ==
    scan_lines(split(stdout \o <<"\n">> \o stderr, "\n"), 1)

(***************************************************************************)
(* BuildTester.__init__ : the module registry, in declaration order.       *)
(* An absent "features_examples" or "binaries" key is the empty sequence   *)
(* and an absent "test_only" key is FALSE, which is how the code reads     *)
(* them (config.get(...), '"features_examples" in config and ...').        *)
(***************************************************************************)
Descriptor(ex, ft, fe, bn, to) ==
    [examples |-> ex, features |-> ft, features_examples |-> fe,
     binaries |-> bn, test_only |-> to]

module_names ==
    <<"blinky", "bme280-embassy", "wifi-embassy", "wifi-synchronous",
      "serial-console-embassy", "mqtt-embassy", "main-app", "iot-common",
      "iot-container", "iot-hal", "iot-performance", "bme280-tests">>

modules ==
    [m \in {module_names[i] : i \in 1..Len(module_names)} |->
        CASE m = "blinky" -> Descriptor(<<>>, None, <<>>, <<>>, FALSE)
          [] m = "bme280-embassy" ->
                Descriptor(<<"basic_reading", "full_system", "hal_integration">>,
                           None, <<>>, <<>>, FALSE)
          [] m = "wifi-embassy" ->
                Descriptor(<<"simple_connect", "wifi_test", "wifi_test_new", "wifi_mqtt_test">>,
                           None, <<>>, <<>>, FALSE)
          [] m = "wifi-synchronous" ->
                Descriptor(<<"simple_wifi_sync", "wifi_manager_sync">>,
                           None, <<>>, <<>>, FALSE)
          [] m = "serial-console-embassy" ->
                Descriptor(<<"basic_console", "simple_working_console", "direct_usb_console",
                             "usb_bridge_console", "system_console">>,
                           None, <<"system_console">>, <<>>, FALSE)
          [] m = "mqtt-embassy" ->
                Descriptor(<<"basic_mqtt", "mqtt_test", "mqtt_test_working">>,
                           "examples", <<>>, <<>>, FALSE)
          [] m = "main-app" ->
                Descriptor(<<>>, None, <<>>, <<"main", "main_container">>, FALSE)
          [] m = "iot-common" ->
                Descriptor(<<"error_conversion", "error_handling">>,
                           None, <<>>, <<>>, FALSE)
          [] m = "iot-container" -> Descriptor(<<>>, None, <<>>, <<>>, TRUE)
          [] m = "iot-hal" -> Descriptor(<<>>, None, <<>>, <<>>, TRUE)
          [] m = "iot-performance" -> Descriptor(<<>>, None, <<>>, <<>>, TRUE)
          [] m = "bme280-tests" -> Descriptor(<<>>, None, <<>>, <<>>, TRUE)]

(***************************************************************************)
(* The external tool.  One element of ToolOutcomes is what one             *)
(* subprocess.run call can do: exit with a status and two output streams,  *)
(* run into the timeout, or fail to start.                                 *)
(***************************************************************************)
ToolOutcome(k, rc, out, err, msg) ==
    [kind |-> k, returncode |-> rc, stdout |-> out, stderr |-> err, message |-> msg]

\* exit 0,  stderr " Finished\n"
OutcomeClean ==
    ToolOutcome("exit", 0, <<>>, <<" ","F","i","n","i","s","h","e","d","\n">>, <<>>)

\* exit 0,  stderr "WARNING: unused v\n  = Deprecated\nok\n"
OutcomeWarn ==
    ToolOutcome("exit", 0, <<>>,
        <<"W","A","R","N","I","N","G",":"," ","u","n","u","s","e","d"," ","v","\n",
          " "," ","="," ","D","e","p","r","e","c","a","t","e","d","\n","o","k","\n">>, <<>>)

\* exit 101,  stdout "dead_code\n",  stderr "error: E1\nunused\n"
OutcomeError ==
    ToolOutcome("exit", 101, <<"d","e","a","d","_","c","o","d","e","\n">>,
        <<"e","r","r","o","r",":"," ","E","1","\n","u","n","u","s","e","d","\n">>, <<>>)

\* subprocess.TimeoutExpired
OutcomeTimeout == ToolOutcome("timeout", 0, <<>>, <<>>, <<>>)

\* any other exception of subprocess.run, str(e) = "[Errno 2] No such file"
OutcomeException ==
    ToolOutcome("exception", 0, <<>>, <<>>,
        <<"[","E","r","r","n","o"," ","2","]"," ","N","o"," ","s","u","c","h"," ","f","i","l","e">>)

ToolOutcomes ==
    {OutcomeClean, OutcomeWarn, OutcomeError, OutcomeTimeout, OutcomeException}

TimeoutMessage ==
    <<"C","o","m","m","a","n","d"," ","t","i","m","e","d"," ","o","u","t"," ",
      "a","f","t","e","r"," ","5"," ","m","i","n","u","t","e","s">>

CommandFailedPrefix ==
    <<"C","o","m","m","a","n","d"," ","f","a","i","l","e","d",":"," ">>

CommandResult(r, ok, out, err) ==
    [raised |-> r, success |-> ok, stdout |-> out, stderr |-> err]

\* run_command whose handlers let the exception of subprocess.run escape
run_command_noexcept(o) ==
    CASE o.kind = "exit" ->
            CommandResult(FALSE, o.returncode = 0, strip(o.stdout), strip(o.stderr))
      [] o.kind = "timeout" -> CommandResult(TRUE, FALSE, <<>>, <<>>)
      [] o.kind = "exception" -> CommandResult(TRUE, FALSE, <<>>, <<>>)

\* run_command whose timeout handler reports success
run_command_timeoutok(o) ==
    CASE o.kind = "exit" ->
            CommandResult(FALSE, o.returncode = 0, strip(o.stdout), strip(o.stderr))
      [] o.kind = "timeout" -> CommandResult(FALSE, TRUE, <<>>, TimeoutMessage)
      [] o.kind = "exception" ->
            CommandResult(FALSE, FALSE, <<>>, CommandFailedPrefix \o o.message)

\* BuildTester.run_command: raised is TRUE when an exception leaves the call
run_command(o) ==
    CASE o.kind = "exit" ->
            CommandResult(FALSE, o.returncode = 0, strip(o.stdout), strip(o.stderr))
      [] o.kind = "timeout" -> CommandResult(FALSE, FALSE, <<>>, TimeoutMessage)
      [] o.kind = "exception" ->
            CommandResult(FALSE, FALSE, <<>>, CommandFailedPrefix \o o.message)

(***************************************************************************)
(* State of the full runner.                                               *)
(***************************************************************************)
VARIABLES
    pc,             \* position of main / test_all_modules
    mi,             \* index in module_names of the module of the for loop
    bi,             \* index of the binary of the inner loop
    ei,             \* index of the example of the inner loops
    results,        \* self.results
    total_tests,    \* self.total_tests
    passed_tests,   \* self.passed_tests
    failed_tests,   \* self.failed_tests
    warnings_count, \* self.warnings_count
    last_clean,     \* value returned by the last clean_workspace call
    verdict,        \* verdict printed by generate_report
    success,        \* value returned by generate_report
    uncaught,       \* exception that left main, None when there is none
    exit_code,      \* exit status of the process
    invocations,    \* the run_command calls made so far, in order
    steps_executed, \* number of build steps the orchestrator has executed
    build_steps,    \* the build steps executed so far: context, module, target, features
    all_timed_out,  \* every tool invocation so far timed out
    tool_default,   \* what the tool does in this run unless a fault occurs
    faults,         \* environment reads that differed from the default
    fault_module    \* index of the module the faults occurred in, 0 when none

runner_vars ==
    <<pc, mi, bi, ei, results, total_tests, passed_tests, failed_tests,
      warnings_count, last_clean, verdict, success, uncaught, exit_code,
      invocations, steps_executed, build_steps, all_timed_out, tool_default,
      faults, fault_module>>

(***************************************************************************)
(* State of the quick probe (test_working_modules.py).                     *)
(***************************************************************************)
VARIABLES
    p_pc,        \* position of main of the quick probe
    p_i,         \* index of the module or binary of the current loop
    working,     \* list working
    broken,      \* list broken
    p_return,    \* value returned by main
    p_deploy,    \* the deployment recommendation printed by main
    p_exit,      \* exit status of the quick probe
    p_attempts,  \* the cargo commands run so far, in order
    p_outcomes,  \* what the tool did in each of them
    p_failure    \* how a build of this run fails when it fails

probe_vars ==
    <<p_pc, p_i, working, broken, p_return, p_deploy, p_exit, p_attempts,
      p_outcomes, p_failure>>

counters == <<results, total_tests, passed_tests, failed_tests, warnings_count>>

NumModules == Len(module_names)

config == modules[module_names[mi]]

workspace_root == "."

Position(p, m, b, e) == [pc |-> p, mi |-> m, bi |-> b, ei |-> e]

GoTo(p) == pc' = p.pc /\ mi' = p.mi /\ bi' = p.bi /\ ei' = p.ei

(***************************************************************************)
(* Control flow of the body of the for loop of test_all_modules.  Each     *)
(* operator gives the next position at which an external command is run.   *)
(***************************************************************************)
\* end of the loop body: the for loop takes the next module, or ends
NextModule(m) ==
    IF m < NumModules THEN Position("module_clean", m + 1, 1, 1)
    ELSE Position("report", m, 1, 1)

\* the second example loop, from example e on
ExamplesModuleFrom(m, e) ==
    IF e <= Len(modules[module_names[m]].examples)
    THEN Position("exmod_clean", m, 1, e)
    ELSE NextModule(m)

\* the first example loop without the clean that precedes each build
ExamplesWorkspaceFrom_noclean(m, e) ==
    IF e <= Len(modules[module_names[m]].examples)
    THEN Position("exws_build", m, 1, e)
    ELSE ExamplesModuleFrom(m, 1)

\* the first example loop, from example e on
ExamplesWorkspaceFrom(m, e) ==
    IF e <= Len(modules[module_names[m]].examples)
    THEN Position("exws_clean", m, 1, e)
    ELSE ExamplesModuleFrom(m, 1)

\* the loop over the binaries, from binary b on, passing over main_container
RECURSIVE BinariesFrom(_, _)
BinariesFrom(m, b) ==
    LET binaries == modules[module_names[m]].binaries
    IN  IF b > Len(binaries) THEN ExamplesWorkspaceFrom(m, 1)
        ELSE IF binaries[b] = "main_container" THEN BinariesFrom(m, b + 1)
        ELSE Position("bin_clean", m, b, 1)

\* after the two checks at the head of the loop body
FirstStep(m) ==
    IF modules[module_names[m]].examples = <<>> /\ modules[module_names[m]].binaries = <<>>
    THEN Position("lib_ws", m, 1, 1)
    ELSE BinariesFrom(m, 1)

\* the head of the loop body with the result of the clean ignored
AfterModuleClean_ignoreclean(ok, m) ==
    IF modules[module_names[m]].test_only THEN NextModule(m) ELSE FirstStep(m)

\* the head of the loop body without the test_only check
AfterModuleClean_notestonly(ok, m) ==
    IF ~ok THEN NextModule(m) ELSE FirstStep(m)

\* the head of the loop body: "continue" on a failed clean and on test_only
AfterModuleClean(ok, m) ==
    IF ~ok THEN NextModule(m)
    ELSE IF modules[module_names[m]].test_only THEN NextModule(m)
    ELSE FirstStep(m)

\* feature value of an example with the per-example list ignored
example_features_default(cfg, example) == cfg.features

\* feature value of an example in both example loops
example_features(cfg, example) ==
    IF \E i \in 1..Len(cfg.features_examples) : cfg.features_examples[i] = example
    THEN "full"
    ELSE cfg.features

(***************************************************************************)
(* The environment: every read of the tool's outcome or of a module        *)
(* directory is the run's default unless a fault is still available.       *)
(***************************************************************************)
FaultAllowed == faults < MaxFaults /\ fault_module \in {0, mi}

ToolRuns(o) ==
    /\ o = tool_default \/ FaultAllowed
    /\ faults' = IF o = tool_default THEN faults ELSE faults + 1
    /\ fault_module' = IF o = tool_default THEN fault_module ELSE mi
    /\ all_timed_out' = (all_timed_out /\ o.kind = "timeout")

Invoke(cmd, cwd, description) ==
    invocations' = Append(invocations,
                          [cmd |-> cmd, cwd |-> cwd, description |-> description])

\* an exception leaves test_all_modules and main: the interpreter ends the run
Raise ==
    /\ pc' = "exiting"
    /\ uncaught' = "Exception"
    /\ UNCHANGED <<mi, bi, ei>>

(***************************************************************************)
(* BuildTester.record_result                                               *)
(***************************************************************************)
\* record_result that counts a failure as total only
record_result_nofail(description, ok, stdout, stderr) ==
    LET warnings == detect_warnings(stdout, stderr)
    IN  /\ total_tests' = total_tests + 1
        /\ warnings_count' = IF warnings # <<>> THEN warnings_count + Len(warnings)
                             ELSE warnings_count
        /\ passed_tests' = IF ok THEN passed_tests + 1 ELSE passed_tests
        /\ failed_tests' = failed_tests
        /\ results' = Append(results,
                             [description |-> description, success |-> ok,
                              stdout |-> stdout, stderr |-> stderr,
                              warnings |-> warnings])

record_result(description, ok, stdout, stderr) ==
    LET warnings == detect_warnings(stdout, stderr)
    IN  /\ total_tests' = total_tests + 1
        /\ warnings_count' = IF warnings # <<>> THEN warnings_count + Len(warnings)
                             ELSE warnings_count
        /\ passed_tests' = IF ok THEN passed_tests + 1 ELSE passed_tests
        /\ failed_tests' = IF ok THEN failed_tests ELSE failed_tests + 1
        /\ results' = Append(results,
                             [description |-> description, success |-> ok,
                              stdout |-> stdout, stderr |-> stderr,
                              warnings |-> warnings])

(***************************************************************************)
(* BuildTester.clean_workspace, test_workspace_build, test_module_build    *)
(* and the binary build of test_all_modules, each followed by a jump to    *)
(* the position next.                                                      *)
(***************************************************************************)
clean_workspace(next) ==
    \E o \in ToolOutcomes :
        /\ ToolRuns(o)
        /\ Invoke(<<"cargo", "clean">>, workspace_root, <<"Clean workspace">>)
        /\ LET r == run_command(o)
           IN  IF r.raised THEN Raise /\ UNCHANGED last_clean
               ELSE /\ last_clean' = r.success
                    /\ GoTo(next)
                    /\ UNCHANGED uncaught
        /\ UNCHANGED <<counters, steps_executed, build_steps>>

RunAndRecord(cmd, cwd, description, next) ==
    \E o \in ToolOutcomes :
        /\ ToolRuns(o)
        /\ Invoke(cmd, cwd, description)
        /\ LET r == run_command(o)
           IN  IF r.raised THEN Raise /\ UNCHANGED counters
               ELSE /\ record_result(description, r.success, r.stdout, r.stderr)
                    /\ GoTo(next)
                    /\ UNCHANGED uncaught

\* a build step of the loop body, with the arguments it was given
BuildStep(context, module, target, features) ==
    build_steps' = Append(build_steps,
                          [context |-> context, module |-> module,
                           target |-> target, features |-> features])

test_workspace_build(module, example, features, next) ==
    LET cmd == <<"cargo", "build">>
               \o (IF example # None THEN <<"--example", example>> ELSE <<"-p", module>>)
               \o (IF features # None THEN <<"--features", features>> ELSE <<>>)
               \o <<"--release">>
        description == <<"Workspace build", module>>
                       \o (IF example # None THEN <<"example", example>> ELSE <<>>)
    IN  /\ RunAndRecord(cmd, workspace_root, description, next)
        /\ steps_executed' = steps_executed + 1
        /\ BuildStep("workspace", module, example, features)

test_module_build(module, example, features, next) ==
    LET cmd == <<"cargo", "build">>
               \o (IF example # None THEN <<"--example", example>> ELSE <<>>)
               \o (IF features # None THEN <<"--features", features>> ELSE <<>>)
               \o <<"--release">>
        description == <<"Module build", module>>
                       \o (IF example # None THEN <<"example", example>> ELSE <<>>)
    IN  /\ steps_executed' = steps_executed + 1
        /\ BuildStep("module", module, example, features)
        /\ \/ \* module_path.exists()
              RunAndRecord(cmd, module, description, next)
           \/ \* the module directory is missing: return False
              /\ FaultAllowed
              /\ faults' = faults + 1
              /\ fault_module' = mi
              /\ GoTo(next)
              /\ UNCHANGED <<counters, invocations, all_timed_out, uncaught>>

binary_build(module, binary, next) ==
    /\ RunAndRecord(<<"cargo", "build", "--release", "--bin", binary>>, workspace_root,
                    <<"Workspace build", module, "binary", binary>>, next)
    /\ steps_executed' = steps_executed + 1
    /\ BuildStep("binary", module, binary, None)

(***************************************************************************)
(* Actions of the full runner: one per external command, with everything   *)
(* the code does up to the next one.                                       *)
(***************************************************************************)
rest == <<verdict, success, exit_code, tool_default>>

\* main up to the call of test_all_modules: the precondition check
Main ==
    /\ pc = "main"
    /\ \E manifest \in {"missing", "not_workspace", "workspace"} :
          IF manifest # "workspace"
          THEN /\ pc' = "exit"
               /\ exit_code' = 1
               /\ UNCHANGED <<mi, bi, ei>>
          ELSE /\ GoTo(Position("module_clean", 1, 1, 1))
               /\ UNCHANGED exit_code
    /\ UNCHANGED <<counters, last_clean, verdict, success, uncaught, invocations,
                   steps_executed, build_steps, all_timed_out, tool_default, faults,
                   fault_module>>
    /\ UNCHANGED probe_vars

\* head of the loop body: clean, then the two "continue" checks
CleanBeforeModule ==
    /\ pc = "module_clean"
    /\ \E o \in ToolOutcomes :
          /\ ToolRuns(o)
          /\ Invoke(<<"cargo", "clean">>, workspace_root, <<"Clean workspace">>)
          /\ LET r == run_command(o)
             IN  IF r.raised THEN Raise /\ UNCHANGED last_clean
                 ELSE /\ last_clean' = r.success
                      /\ GoTo(AfterModuleClean(r.success, mi))
                      /\ UNCHANGED uncaught
    /\ UNCHANGED <<counters, steps_executed, build_steps, rest>>
    /\ UNCHANGED probe_vars

LibraryWorkspaceBuild ==
    /\ pc = "lib_ws"
    /\ test_workspace_build(module_names[mi], None, config.features,
                            Position("lib_reclean", mi, 1, 1))
    /\ UNCHANGED <<last_clean, rest>>
    /\ UNCHANGED probe_vars

LibraryReClean ==
    /\ pc = "lib_reclean"
    /\ clean_workspace(Position("lib_mod", mi, 1, 1))
    /\ UNCHANGED rest
    /\ UNCHANGED probe_vars

LibraryModuleBuild ==
    /\ pc = "lib_mod"
    /\ test_module_build(module_names[mi], None, config.features, BinariesFrom(mi, 1))
    /\ UNCHANGED <<last_clean, rest>>
    /\ UNCHANGED probe_vars

BinaryReClean ==
    /\ pc = "bin_clean"
    /\ clean_workspace(Position("bin_build", mi, bi, 1))
    /\ UNCHANGED rest
    /\ UNCHANGED probe_vars

BinaryBuild ==
    /\ pc = "bin_build"
    /\ binary_build(module_names[mi], config.binaries[bi], BinariesFrom(mi, bi + 1))
    /\ UNCHANGED <<last_clean, rest>>
    /\ UNCHANGED probe_vars

ExampleWorkspaceReClean ==
    /\ pc = "exws_clean"
    /\ clean_workspace(Position("exws_build", mi, 1, ei))
    /\ UNCHANGED rest
    /\ UNCHANGED probe_vars

ExampleWorkspaceBuild ==
    /\ pc = "exws_build"
    /\ test_workspace_build(module_names[mi], config.examples[ei],
                            example_features(config, config.examples[ei]),
                            ExamplesWorkspaceFrom(mi, ei + 1))
    /\ UNCHANGED <<last_clean, rest>>
    /\ UNCHANGED probe_vars

ExampleModuleReClean ==
    /\ pc = "exmod_clean"
    /\ clean_workspace(Position("exmod_build", mi, 1, ei))
    /\ UNCHANGED rest
    /\ UNCHANGED probe_vars

ExampleModuleBuild ==
    /\ pc = "exmod_build"
    /\ test_module_build(module_names[mi], config.examples[ei],
                         example_features(config, config.examples[ei]),
                         ExamplesModuleFrom(mi, ei + 1))
    /\ UNCHANGED <<last_clean, rest>>
    /\ UNCHANGED probe_vars

(***************************************************************************)
(* BuildTester.generate_report and the end of main.                        *)
(***************************************************************************)
PilotReady == "ALL TESTS PASSED - SYSTEM IS PILOT READY!"

PassedWithWarnings == "ALL TESTS PASSED BUT WITH WARNINGS"

BuildIssues == "SYSTEM HAS BUILD ISSUES - REQUIRES ATTENTION"

\* the verdict branch of generate_report
Verdict(failed, warned) ==
    IF failed = 0
    THEN IF warned = 0 THEN PilotReady ELSE PassedWithWarnings
    ELSE BuildIssues

GenerateReport ==
    /\ pc = "report"
    /\ IF total_tests = 0
       THEN \* the success rate divides by total_tests
            /\ uncaught' = "ZeroDivisionError"
            /\ UNCHANGED <<verdict, success>>
       ELSE /\ verdict' = Verdict(failed_tests, warnings_count)
            /\ success' = (failed_tests = 0)
            /\ UNCHANGED uncaught
    /\ pc' = "exiting"
    /\ UNCHANGED <<mi, bi, ei, counters, last_clean, exit_code, invocations,
                   steps_executed, build_steps, all_timed_out, tool_default, faults,
                   fault_module>>
    /\ UNCHANGED probe_vars

\* sys.exit(0 if success else 1), or the interpreter's exit on a traceback
ExitStatus(exc, ok) == IF exc # None THEN 1 ELSE IF ok THEN 0 ELSE 1

Exit ==
    /\ pc = "exiting"
    /\ exit_code' = ExitStatus(uncaught, success)
    /\ pc' = "exit"
    /\ UNCHANGED <<mi, bi, ei, counters, last_clean, verdict, success, uncaught,
                   invocations, steps_executed, build_steps, all_timed_out, tool_default,
                   faults, fault_module>>
    /\ UNCHANGED probe_vars

RunnerInit ==
    /\ pc = "main"
    /\ mi = 1 /\ bi = 1 /\ ei = 1
    /\ results = <<>>
    /\ total_tests = 0 /\ passed_tests = 0 /\ failed_tests = 0 /\ warnings_count = 0
    /\ last_clean = TRUE
    /\ verdict = None
    /\ success = FALSE
    /\ uncaught = None
    /\ exit_code = -1
    /\ invocations = <<>>
    /\ steps_executed = 0
    /\ build_steps = <<>>
    /\ all_timed_out = TRUE
    /\ tool_default \in ToolOutcomes
    /\ faults = 0
    /\ fault_module = 0

RunnerNext ==
    \/ Main
    \/ CleanBeforeModule
    \/ LibraryWorkspaceBuild
    \/ LibraryReClean
    \/ LibraryModuleBuild
    \/ BinaryReClean
    \/ BinaryBuild
    \/ ExampleWorkspaceReClean
    \/ ExampleWorkspaceBuild
    \/ ExampleModuleReClean
    \/ ExampleModuleBuild
    \/ GenerateReport
    \/ Exit

(***************************************************************************)
(* The quick probe.  test_module_build and test_binary_build return the    *)
(* pair (success, error) of one cargo build.                               *)
(***************************************************************************)
probe_modules ==
    <<"blinky", "bme280-embassy", "wifi-embassy", "wifi-synchronous",
      "serial-console-embassy", "mqtt-embassy", "main-app", "iot-common",
      "iot-container", "iot-hal", "iot-performance">>

probe_binaries == <<"main", "main_container">>

\* "error: E1\n"
ProbeStderr == <<"e","r","r","o","r",":"," ","E","1","\n">>

\* a stderr of 120 characters
ProbeLongStderr == [i \in 1..120 |-> IF i % 10 = 0 THEN "\n" ELSE "e"]

\* the ways one build of the probe can fail: exit status 101 with a short,
\* an empty or a long stderr, the timeout, another exception of subprocess.run
ProbeFailures ==
    {ToolOutcome("exit", 101, <<>>, ProbeStderr, <<>>),
     ToolOutcome("exit", 101, <<>>, <<>>, <<>>),
     ToolOutcome("exit", 101, <<>>, ProbeLongStderr, <<>>),
     OutcomeTimeout,
     OutcomeException}

ProbeSuccess == ToolOutcome("exit", 0, <<>>, <<" ","F","i","n","i","s","h","e","d","\n">>, <<>>)

TimeoutText == <<"T","i","m","e","o","u","t">>

UnknownError == <<"U","n","k","n","o","w","n"," ","e","r","r","o","r">>

BuildResult(ok, err) == [success |-> ok, error |-> err]

\* a build function whose timeout handler returns True
probe_build_timeoutok(o) ==
    CASE o.kind = "exit" -> BuildResult(o.returncode = 0, o.stderr)
      [] o.kind = "timeout" -> BuildResult(TRUE, TimeoutText)
      [] o.kind = "exception" -> BuildResult(FALSE, o.message)

\* test_module_build and test_binary_build of the probe, which differ in the
\* command only
probe_build(o) ==
    CASE o.kind = "exit" -> BuildResult(o.returncode = 0, o.stderr)
      [] o.kind = "timeout" -> BuildResult(FALSE, TimeoutText)
      [] o.kind = "exception" -> BuildResult(FALSE, o.message)

\* error[:100] if error else "Unknown error"
BrokenError(error) ==
    IF error # <<>> THEN SubSeq(error, 1, IF Len(error) < 100 THEN Len(error) ELSE 100)
    ELSE UnknownError

\* an entry of working or the name of an entry of broken: suffix is
\* " (binary)" for a binary and empty for a module
Entry(name, suffix) == <<name, suffix>>

\* w.replace(" (binary)", "")
WithoutBinarySuffix(entry) == entry[1]

ProbeOutcomeAllowed(o) == o = ProbeSuccess \/ o = p_failure

\* one pass of the loop over modules
ProbeModule ==
    /\ p_pc = "modules"
    /\ \E o \in ProbeFailures \cup {ProbeSuccess} :
          /\ ProbeOutcomeAllowed(o)
          /\ p_attempts' = Append(p_attempts,
                 <<"cargo", "build", "--release", "-p", probe_modules[p_i]>>)
          /\ p_outcomes' = Append(p_outcomes, o)
          /\ LET r == probe_build(o)
             IN  IF r.success
                 THEN /\ working' = Append(working, Entry(probe_modules[p_i], ""))
                      /\ UNCHANGED broken
                 ELSE /\ broken' = Append(broken,
                             <<Entry(probe_modules[p_i], ""), BrokenError(r.error)>>)
                      /\ UNCHANGED working
    /\ IF p_i < Len(probe_modules)
       THEN p_i' = p_i + 1 /\ UNCHANGED p_pc
       ELSE p_i' = 1 /\ p_pc' = "binaries"
    /\ UNCHANGED <<p_return, p_deploy, p_exit, p_failure>>
    /\ UNCHANGED runner_vars

\* one pass of the loop over binaries
ProbeBinary ==
    /\ p_pc = "binaries"
    /\ \E o \in ProbeFailures \cup {ProbeSuccess} :
          /\ ProbeOutcomeAllowed(o)
          /\ p_attempts' = Append(p_attempts,
                 <<"cargo", "build", "--release", "--bin", probe_binaries[p_i]>>)
          /\ p_outcomes' = Append(p_outcomes, o)
          /\ LET r == probe_build(o)
             IN  IF r.success
                 THEN /\ working' = Append(working, Entry(probe_binaries[p_i], " (binary)"))
                      /\ UNCHANGED broken
                 ELSE /\ broken' = Append(broken,
                             <<Entry(probe_binaries[p_i], " (binary)"), BrokenError(r.error)>>)
                      /\ UNCHANGED working
    /\ IF p_i < Len(probe_binaries)
       THEN p_i' = p_i + 1 /\ UNCHANGED p_pc
       ELSE p_i' = 1 /\ p_pc' = "results"
    /\ UNCHANGED <<p_return, p_deploy, p_exit, p_failure>>
    /\ UNCHANGED runner_vars

\* the results, the recommendation and the return value of main
ProbeResults ==
    /\ p_pc = "results"
    /\ p_deploy' = (\E k \in 1..Len(working) : WithoutBinarySuffix(working[k]) = "main")
    /\ p_return' = (Len(broken) = 0)
    /\ p_pc' = "return"
    /\ UNCHANGED <<p_i, working, broken, p_exit, p_attempts, p_outcomes, p_failure>>
    /\ UNCHANGED runner_vars

\* sys.exit(0 if success else 1)
ProbeExit ==
    /\ p_pc = "return"
    /\ p_exit' = (IF p_return THEN 0 ELSE 1)
    /\ p_pc' = "exit"
    /\ UNCHANGED <<p_i, working, broken, p_return, p_deploy, p_attempts, p_outcomes,
                   p_failure>>
    /\ UNCHANGED runner_vars

ProbeInit ==
    /\ p_pc = "modules"
    /\ p_i = 1
    /\ working = <<>>
    /\ broken = <<>>
    /\ p_return = FALSE
    /\ p_deploy = FALSE
    /\ p_exit = -1
    /\ p_attempts = <<>>
    /\ p_outcomes = <<>>
    /\ p_failure \in ProbeFailures

ProbeNext ==
    \/ ProbeModule
    \/ ProbeBinary
    \/ ProbeResults
    \/ ProbeExit

vars == <<runner_vars, probe_vars>>

\* a run of the full runner
Init == RunnerInit /\ ProbeInit /\ p_failure = OutcomeTimeout

Next == RunnerNext

Spec == Init /\ [][Next]_vars

\* a run of the quick probe
InitProbe == ProbeInit /\ RunnerInit /\ tool_default = OutcomeClean

NextProbe == ProbeNext

SpecProbe == InitProbe /\ [][NextProbe]_vars

(***************************************************************************)
(* Properties of the full runner.                                          *)
(***************************************************************************)
LoopPcs ==
    {"module_clean", "lib_ws", "lib_reclean", "lib_mod", "bin_clean", "bin_build",
     "exws_clean", "exws_build", "exmod_clean", "exmod_build"}

\* sum of the lengths of the warnings lists of the first n records
RECURSIVE SumWarnings(_)
SumWarnings(n) ==
    IF n = 0 THEN 0 ELSE Len(results[n].warnings) + SumWarnings(n - 1)

NumPassed == Cardinality({i \in 1..Len(results) : results[i].success})

NumFailed == Cardinality({i \in 1..Len(results) : ~results[i].success})

\* C1: after any sequence of record_result calls the counters are folds over
\* the result log: passed_tests counts the records with success, failed_tests
\* those without, total_tests is their sum and the length of the log, and
\* warnings_count is the sum of the lengths of the records' warnings lists.
C1_CountersAreFolds ==
    /\ passed_tests = NumPassed
    /\ failed_tests = NumFailed
    /\ total_tests = passed_tests + failed_tests
    /\ total_tests = Len(results)
    /\ warnings_count = SumWarnings(Len(results))

C1_Witness ==
    /\ NumPassed >= 1
    /\ NumFailed >= 1
    /\ warnings_count >= 3

\* C2: every build step the orchestrator executes (a call of
\* test_workspace_build, a call of test_module_build, a binary build)
\* appends exactly one record, so the log is as long as the number of build
\* steps executed.
C2_OneRecordPerStep == Len(results) = steps_executed

\* the process has ended after a run that passed the precondition check
RunEnded == pc = "exit" /\ invocations # <<>>

\* C3: after the precondition check the verdict and the exit code are a
\* function of failed_tests and warnings_count: no failure and no warning is
\* pilot-ready with exit code 0, no failure with warnings is
\* passed-with-warnings with exit code 0, a failure is build-issues with
\* exit code 1.
C3_VerdictAndExitCode ==
    RunEnded =>
        /\ verdict = Verdict(failed_tests, warnings_count)
        /\ exit_code = (IF failed_tests = 0 THEN 0 ELSE 1)

\* number of build steps planned for module m: two for a plain library, one
\* per binary that is not excluded, two per example; none when test_only
PlannedSteps(m) ==
    LET cfg == modules[m]
    IN  IF cfg.test_only THEN 0
        ELSE (IF cfg.examples = <<>> /\ cfg.binaries = <<>> THEN 2 ELSE 0)
             + Cardinality({b \in 1..Len(cfg.binaries) : cfg.binaries[b] # "main_container"})
             + 2 * Len(cfg.examples)

RECURSIVE PlannedUpTo(_)
PlannedUpTo(k) ==
    IF k = 0 THEN 0 ELSE PlannedSteps(module_names[k]) + PlannedUpTo(k - 1)

\* C4 as stated: when every invocation of the tool times out, at the end of
\* test_all_modules every planned build step has a failed record with the
\* timeout message and total_tests is the number of planned build steps.
C4_AllTimeoutsRecorded ==
    (pc = "report" /\ all_timed_out) =>
        /\ total_tests = PlannedUpTo(NumModules)
        /\ \A i \in 1..Len(results) :
              ~results[i].success /\ results[i].stderr = TimeoutMessage

\* C4 amended: when every invocation of the tool times out, every module's
\* clean at the head of the loop fails, so at the end of test_all_modules
\* exactly one clean per module has been invoked, no build step has been
\* executed, the result log is empty and total_tests is 0.
C4_AllTimeoutsSkipEverything ==
    (pc = "report" /\ all_timed_out) =>
        /\ results = <<>>
        /\ total_tests = 0
        /\ steps_executed = 0
        /\ Len(invocations) = NumModules
        /\ \A i \in 1..Len(invocations) : invocations[i].cmd = <<"cargo", "clean">>

C4_Witness == pc = "report" /\ all_timed_out /\ tool_default = OutcomeTimeout

\* this step is a clean_workspace call that returned False
CleanFailedStep ==
    /\ Len(invocations') = Len(invocations) + 1
    /\ invocations'[Len(invocations')].cmd = <<"cargo", "clean">>
    /\ ~last_clean'

\* the for loop has gone on to the module after module mi without a record
SkippedToNextModule ==
    /\ results' = results
    /\ steps_executed' = steps_executed
    /\ \/ pc' = "module_clean" /\ mi' = mi + 1
       \/ pc' = "report" /\ mi = NumModules

\* C5 as stated: whenever a clean fails while a module is processed, the
\* clean at the head of the loop or a re-clean, no further build step of the
\* module is executed or recorded and the loop goes on to the next module.
C5_AnyFailedCleanSkips == [][CleanFailedStep => SkippedToNextModule]_vars

\* C5 amended: whenever the clean at the head of the loop body fails, no
\* build step of that module is executed or recorded and the loop goes on to
\* the next module; the result of a re-clean is ignored, the build step after
\* it is the next thing executed.
FailedCleanStep ==
    /\ (pc = "module_clean" /\ CleanFailedStep) => SkippedToNextModule
    /\ (pc = "lib_reclean" /\ CleanFailedStep) => (pc' = "lib_mod" /\ mi' = mi)
    /\ (pc = "bin_clean" /\ CleanFailedStep) => (pc' = "bin_build" /\ mi' = mi)
    /\ (pc = "exws_clean" /\ CleanFailedStep) => (pc' = "exws_build" /\ mi' = mi)
    /\ (pc = "exmod_clean" /\ CleanFailedStep) => (pc' = "exmod_build" /\ mi' = mi)

C5_FailedFirstCleanSkips == [][FailedCleanStep]_vars

\* the clean of bme280-embassy failed after blinky was built twice
C5_Witness ==
    /\ pc = "module_clean" /\ mi = 3
    /\ ~last_clean
    /\ Len(invocations) = 5
    /\ Len(results) = 2

\* C6: generate_report completes when the result log is empty: no exception
\* leaves it and it returns a verdict.
C6_EmptyReportCompletes ==
    (pc = "exiting" /\ total_tests = 0) => (uncaught = None /\ verdict # None)

IsTestOnly(m) == modules[m].test_only

\* a step of the loop taken while the module at hand is test_only: it is the
\* clean at the head of the loop body, and whatever the clean returns the
\* step records nothing, executes no build step and goes to the next module
TestOnlyStep ==
    (pc \in LoopPcs /\ IsTestOnly(module_names[mi])) =>
        /\ pc = "module_clean"
        /\ invocations' = Append(invocations, invocations'[Len(invocations')])
        /\ invocations'[Len(invocations')].cmd = <<"cargo", "clean">>
        /\ results' = results
        /\ total_tests' = total_tests
        /\ steps_executed' = steps_executed
        /\ \/ pc' = "module_clean" /\ mi' = mi + 1
           \/ pc' = "report" /\ mi = NumModules

Progress == Len(invocations) + steps_executed

\* one clean per module, and per planned build step the step, its build
\* command and the re-clean before it
MaxProgress == NumModules + 3 * PlannedUpTo(NumModules)

\* inside the loop the position names a step of the module at hand, so that
\* the step can be taken whatever the tool does
LoopPositionValid ==
    pc \in LoopPcs =>
        /\ mi \in 1..NumModules
        /\ uncaught = None
        /\ pc \in {"lib_ws", "lib_reclean", "lib_mod"} =>
               (config.examples = <<>> /\ config.binaries = <<>>)
        /\ pc \in {"bin_clean", "bin_build"} =>
               (bi \in 1..Len(config.binaries) /\ config.binaries[bi] # "main_container")
        /\ pc \in {"exws_clean", "exws_build", "exmod_clean", "exmod_build"} =>
               ei \in 1..Len(config.examples)

\* C8: whatever the outcomes of the invocations, test_all_modules goes through
\* the registry in declaration order and ends in generate_report: inside the
\* loop the position is always a step that can be taken, every step makes
\* progress towards a fixed limit, and a step stays in the module, goes to
\* the module declared next, or leaves the loop for the report after the
\* last module; no step leaves the loop with an exception.
LoopStepInOrder ==
    pc \in LoopPcs =>
        /\ Progress' > Progress
        /\ \/ pc' \in LoopPcs \ {"module_clean"} /\ mi' = mi
           \/ pc' = "module_clean" /\ mi' = mi + 1
           \/ pc' = "report" /\ mi = NumModules

C8_EveryModuleThenReport ==
    /\ [](LoopPositionValid /\ Progress <= MaxProgress)
    /\ [][LoopStepInOrder]_vars

\* the report is reached after a run in which a build exited non-zero
C8_Witness ==
    /\ pc = "report" /\ mi = NumModules
    /\ failed_tests > 0
    /\ passed_tests > 0

HasMarker(line) ==
    \E p \in 1..Len(warning_patterns) : contains(warning_patterns[p], lower(line))

\* the lines of stdout followed by those of stderr that contain a marker
MatchingLines(stdout, stderr) ==
    SelectSeq(split(stdout, "\n") \o split(stderr, "\n"), HasMarker)

Stripped(lines) == [i \in 1..Len(lines) |-> strip(lines[i])]

\* C10 as stated: the warnings of a record are, in input order, exactly the
\* lines of stdout followed by stderr that contain one of the six markers.
C10_WarningsAreMatchingLines ==
    \A i \in 1..Len(results) :
        results[i].warnings = MatchingLines(results[i].stdout, results[i].stderr)

\* C10 amended: the warnings of a record are, in input order, the lines of
\* stdout followed by stderr that contain one of the six markers in any
\* case, each once and each with its leading and trailing white space
\* removed, and the record adds the number of those lines to warnings_count.
RecordHasStrippedMatchingLines ==
    Len(results') = Len(results) + 1 =>
        LET r == results'[Len(results')]
            matching == MatchingLines(r.stdout, r.stderr)
        IN  /\ r.warnings = Stripped(matching)
            /\ warnings_count' = warnings_count + Len(matching)

C10_WarningsAreStrippedMatchingLines == [][RecordHasStrippedMatchingLines]_vars

\* a record with a line that holds two markers and a line that was stripped
C10_Witness ==
    \E i \in 1..Len(results) :
        LET matching == MatchingLines(results[i].stdout, results[i].stderr)
        IN  /\ \E k \in 1..Len(matching) :
                  Cardinality({p \in 1..Len(warning_patterns) :
                      contains(warning_patterns[p], lower(matching[k]))}) >= 2
            /\ \E k \in 1..Len(matching) : strip(matching[k]) # matching[k]
            /\ Len(results[i].warnings) = Len(matching)

(***************************************************************************)
(* Properties of the quick probe.                                          *)
(***************************************************************************)
\* the 13 targets in the fixed order: the modules, then the binaries
ProbeTargets ==
    [k \in 1..(Len(probe_modules) + Len(probe_binaries)) |->
        IF k <= Len(probe_modules) THEN Entry(probe_modules[k], "")
        ELSE Entry(probe_binaries[k - Len(probe_modules)], " (binary)")]

ProbeCommands ==
    [k \in 1..(Len(probe_modules) + Len(probe_binaries)) |->
        IF k <= Len(probe_modules)
        THEN <<"cargo", "build", "--release", "-p", probe_modules[k]>>
        ELSE <<"cargo", "build", "--release", "--bin",
               probe_binaries[k - Len(probe_modules)]>>]

\* the build of target k succeeded: the tool exited with status 0
ProbeBuilt(k) == p_outcomes[k].kind = "exit" /\ p_outcomes[k].returncode = 0

\* the targets among the first n whose membership in the built ones is hit
RECURSIVE TargetsWhere(_, _)
TargetsWhere(n, hit) ==
    IF n = 0 THEN <<>>
    ELSE TargetsWhere(n - 1, hit)
         \o (IF ProbeBuilt(n) = hit THEN <<ProbeTargets[n]>> ELSE <<>>)

\* C9: whatever builds succeed, each of the 13 targets is attempted exactly
\* once in the fixed order, modules then binaries; working holds, in that
\* order, the targets whose build succeeded and broken the others (a timeout
\* and an exception count as failure); main returns success and the exit code
\* is 0 exactly when broken is empty.
C9_ProbeClassifiesEveryTarget ==
    /\ Len(p_attempts) = Len(p_outcomes)
    /\ p_attempts = SubSeq(ProbeCommands, 1, Len(p_attempts))
    /\ working = TargetsWhere(Len(p_outcomes), TRUE)
    /\ [k \in 1..Len(broken) |-> broken[k][1]] = TargetsWhere(Len(p_outcomes), FALSE)
    /\ p_pc \in {"results", "return", "exit"} => p_attempts = ProbeCommands
    /\ p_pc \in {"return", "exit"} => (p_return <=> broken = <<>>)
    /\ p_pc = "exit" => (p_exit = 0 <=> broken = <<>>) /\ p_exit \in {0, 1}

\* the probe has ended with iot-hal alone in broken
C9_Witness ==
    /\ p_pc = "exit"
    /\ Len(broken) = 1 /\ broken[1][1] = Entry("iot-hal", "")
    /\ Len(working) = 12
    /\ p_exit = 1

(***************************************************************************)
(* Order of the external commands of the full runner.                      *)
(***************************************************************************)
CleanCommand == <<"cargo", "clean">>

IsBuild(inv) == inv.cmd[1] = "cargo" /\ inv.cmd[2] = "build"

\* a step runs at most one external command, to its end, and a build is
\* run only when the command run last before it was the clean
OneCommandAfterClean ==
    \/ invocations' = invocations
    \/ /\ Len(invocations') = Len(invocations) + 1
       /\ SubSeq(invocations', 1, Len(invocations)) = invocations
       /\ LET inv == invocations'[Len(invocations')]
          IN  /\ inv.cmd = CleanCommand \/ IsBuild(inv)
              /\ IsBuild(inv) =>
                    /\ invocations # <<>>
                    /\ invocations[Len(invocations)].cmd = CleanCommand

\* C11: in every run of test_all_modules each build command (workspace
\* build, module-folder build, binary build) is immediately preceded by a
\* clean command, with no other build between the two, and the commands run
\* one at a time: every step of the runner starts at most one command and
\* has its result before the step ends.
C11_EveryBuildRightAfterClean == [][OneCommandAfterClean]_vars

\* blinky has been built in the workspace, then cleaned, then built in its
\* own directory although that clean failed
C11_Witness ==
    /\ Len(invocations) >= 4
    /\ invocations[3].cmd = CleanCommand
    /\ IsBuild(invocations[2]) /\ invocations[2].cwd = workspace_root
    /\ IsBuild(invocations[4]) /\ invocations[4].cwd = "blinky"
    /\ ~last_clean

(***************************************************************************)
(* The example builds of a module.                                         *)
(***************************************************************************)
\* the feature value declared for an example of a module
DeclaredFeatures(m, example) ==
    LET d == modules[m]
    IN  IF example \in {d.features_examples[i] : i \in 1..Len(d.features_examples)}
        THEN "full"
        ELSE d.features

\* every example once in the workspace, then every example once in the
\* module's directory, both in the order of declaration
DeclaredExampleSteps(m) ==
    LET examples == modules[m].examples
        n == Len(examples)
    IN  [k \in 1..(2 * n) |->
            LET example == IF k <= n THEN examples[k] ELSE examples[k - n]
            IN  [context |-> IF k <= n THEN "workspace" ELSE "module",
                 module |-> m, target |-> example,
                 features |-> DeclaredFeatures(m, example)]]

\* the workspace and module-folder build steps of a module in a log
StepsOf(log, m) ==
    LET OfModule(s) == s.module = m /\ s.context \in {"workspace", "module"}
    IN  SelectSeq(log, OfModule)

\* the command of an example build in a context
ExampleCommand(st) ==
    <<"cargo", "build", "--example", st.target>>
    \o (IF DeclaredFeatures(st.module, st.target) # None
        THEN <<"--features", DeclaredFeatures(st.module, st.target)>>
        ELSE <<>>)
    \o <<"--release">>

\* the loop body of a module that was not skipped ends in this step
ModuleDone ==
    /\ pc \in {"lib_mod", "bin_build", "exws_build", "exmod_build"}
    /\ pc' = "report" \/ (pc' = "module_clean" /\ mi' = mi + 1)

\* the module at the head of the loop is skipped in this step
ModuleSkipped ==
    /\ pc = "module_clean"
    /\ pc' = "report" \/ (pc' = "module_clean" /\ mi' = mi + 1)

ExampleStepsInOrder ==
    LET m == module_names[mi]
    IN  /\ ModuleDone /\ modules[m].examples # <<>> =>
              StepsOf(build_steps', m) = DeclaredExampleSteps(m)
        /\ ModuleSkipped => StepsOf(build_steps', m) = <<>>
        /\ build_steps' # build_steps /\ invocations' # invocations =>
              LET st == build_steps'[Len(build_steps')]
                  inv == invocations'[Len(invocations')]
              IN  st.context \in {"workspace", "module"} /\ st.target # None =>
                    /\ inv.cmd = ExampleCommand(st)
                    /\ inv.cwd = IF st.context = "workspace" THEN workspace_root
                                 ELSE st.module

ExampleStepsAtReport ==
    pc = "report" =>
        \A i \in 1..NumModules :
            modules[module_names[i]].examples # <<>> =>
                StepsOf(build_steps, module_names[i])
                    \in {<<>>, DeclaredExampleSteps(module_names[i])}

====
